---- MODULE Spec2Model ----
(***************************************************************************)
(* The Job playtest tracker (src/app.py): the play sheet, the canonical    *)
(* suit list, the combination identifier, the recommended combinations,    *)
(* the coverage join and the observed-combination aggregation.             *)
(*                                                                         *)
(* A Python str is the sequence of its code points, so that strip(),       *)
(* lower(), the "|" join and the string order of sorted() are computed     *)
(* and not assumed.                                                        *)
(***************************************************************************)
EXTENDS Integers, Sequences, FiniteSets, TLC

\* sheet      the "Plays" worksheet of the spreadsheet
\* clock      datetime.now(timezone.utc), in seconds
\* frame      plays_df of the last script run (read_plays_df)
\* previous   plays_df of the script run before the last one
\* log        the play dicts passed to append_play so far, in call order
\* phase      where the script is: "rerun" (about to run), "computed"
\*            (plays_df, coverage_df and observed_df are computed), "idle"
\*            (the page is shown), "crashed" (read_plays_df raised); and in
\*            the specification of the pure helpers "args",
\*            "canonical_list", "combo_id": which helper was called
\* argA, argB, pcA, pcB, retA, retB
\*            the arguments and the results of two calls of a pure helper
VARIABLES sheet, clock, frame, previous, log, phase, argA, argB, pcA, pcB, retA, retB

vars == <<sheet, clock, frame, previous, log, phase, argA, argB, pcA, pcB, retA, retB>>

\* ------------------------------------------------------------------
\* Bounds of the model
\* ------------------------------------------------------------------
\* the plays appended in one run of the model
MaxPlays == 2
\* the length of the lists given to canonical_list and combo_id
MaxLen == 2

\* ------------------------------------------------------------------
\* Catalog (module constants of app.py)
\* ------------------------------------------------------------------
Authority == <<65, 117, 116, 104, 111, 114, 105, 116, 121>>
Tools == <<84, 111, 111, 108, 115>>
Goods == <<71, 111, 111, 100, 115>>
Crew == <<67, 114, 101, 119>>
Access == <<65, 99, 99, 101, 115, 115>>
Spotlight == <<83, 112, 111, 116, 108, 105, 103, 104, 116>>
Blackout == <<66, 108, 97, 99, 107, 111, 117, 116>>
Squeeze == <<83, 113, 117, 101, 101, 122, 101>>
CleanUp == <<67, 108, 101, 97, 110, 45, 85, 112>>
Leverage == <<76, 101, 118, 101, 114, 97, 103, 101>>
Aftermath == <<65, 102, 116, 101, 114, 109, 97, 116, 104>>
Fog == <<70, 111, 103>>
Middlemen == <<77, 105, 100, 100, 108, 101, 109, 101, 110>>
Fence == <<70, 101, 110, 99, 101>>

SUITS ==
    << Authority, Tools, Goods, Crew, Access, Spotlight, Blackout, Squeeze,
       CleanUp, Leverage, Aftermath, Fog, Middlemen, Fence >>

\* The dict {2: 3, 3: 4, 4: 6, 5: 6}, in its insertion order.
RECOMMENDED_SUITS ==
    << [pc |-> 2, k |-> 3], [pc |-> 3, k |-> 4],
       [pc |-> 4, k |-> 6], [pc |-> 5, k |-> 6] >>

SHEET_HEADERS ==
    << "timestamp_utc", "player_count", "suits_used_json", "modules_on_json",
       "first_play", "players_json", "scores_json", "winner", "notes" >>

\* ------------------------------------------------------------------
\* Python str and list primitives
\* ------------------------------------------------------------------
Range(s) == { s[i] : i \in 1..Len(s) }

\* str.isspace() of one character: space, \t, \n, \v, \f, \r
IsSpace(c) == c \in {32, 9, 10, 11, 12, 13}

RECURSIVE lstrip(_)
lstrip(s) ==
    IF s = <<>> THEN <<>>
    ELSE IF IsSpace(Head(s)) THEN lstrip(Tail(s)) ELSE s

RECURSIVE rstrip(_)
rstrip(s) ==
    IF s = <<>> THEN <<>>
    ELSE IF IsSpace(s[Len(s)]) THEN rstrip(SubSeq(s, 1, Len(s) - 1)) ELSE s

\* str.strip()
strip(s) == rstrip(lstrip(s))

\* str.lower(), on the ASCII letters
lower(s) == [i \in 1..Len(s) |-> IF s[i] >= 65 /\ s[i] <= 90 THEN s[i] + 32 ELSE s[i]]

\* a < b for Python str: code point by code point, a proper prefix first
RECURSIVE StrLT(_, _)
StrLT(a, b) ==
    IF b = <<>> THEN FALSE
    ELSE IF a = <<>> THEN TRUE
    ELSE IF Head(a) # Head(b) THEN Head(a) < Head(b)
    ELSE StrLT(Tail(a), Tail(b))

\* sep.join(xs)
RECURSIVE Join(_, _)
Join(xs, sep) ==
    IF xs = <<>> THEN <<>>
    ELSE IF Len(xs) = 1 THEN xs[1]
    ELSE xs[1] \o sep \o Join(Tail(xs), sep)

\* str(n) of an int
RECURSIVE NatToStr(_)
NatToStr(n) ==
    IF n < 10 THEN <<48 + n>> ELSE NatToStr(n \div 10) \o <<48 + (n % 10)>>

IntToStr(n) == IF n < 0 THEN <<45>> \o NatToStr(0 - n) ELSE NatToStr(n)

\* sorted(xs, key=lambda s: s.lower()): a stable sort, so an element goes
\* after every element already placed whose key is not greater.
RECURSIVE InsertByLower(_, _)
InsertByLower(sorted, x) ==
    IF sorted = <<>> THEN <<x>>
    ELSE IF StrLT(lower(x), lower(Head(sorted))) THEN <<x>> \o sorted
    ELSE <<Head(sorted)>> \o InsertByLower(Tail(sorted), x)

RECURSIVE SortedByLower(_)
SortedByLower(xs) ==
    IF xs = <<>> THEN <<>>
    ELSE InsertByLower(SortedByLower(SubSeq(xs, 1, Len(xs) - 1)), xs[Len(xs)])

\* itertools.combinations(pool, k), in its order
RECURSIVE combinations(_, _)
combinations(pool, k) ==
    IF k = 0 THEN << <<>> >>
    ELSE IF Len(pool) < k THEN <<>>
    ELSE LET withHead == combinations(Tail(pool), k - 1)
         IN  [i \in 1..Len(withHead) |-> <<Head(pool)>> \o withHead[i]]
             \o combinations(Tail(pool), k)

\* ------------------------------------------------------------------
\* JSON decode helpers
\* ------------------------------------------------------------------
StripEach(items) == [i \in 1..Len(items) |-> strip(items[i])]

NonEmpty(s) == s # <<>>

canonical_list(items) == SortedByLower(SelectSeq(StripEach(items), NonEmpty))

\* ------------------------------------------------------------------
\* Combo + coverage helpers
\* ------------------------------------------------------------------
RecommendedKeys == { RECOMMENDED_SUITS[i].pc : i \in 1..Len(RECOMMENDED_SUITS) }

RecommendedGet(pc) ==
    (CHOOSE e \in Range(RECOMMENDED_SUITS) : e.pc = pc).k

density_label(player_count, suit_count) ==
    IF player_count \notin RecommendedKeys THEN [label |-> "Unknown", diff |-> 0]
    ELSE LET diff == suit_count - RecommendedGet(player_count)
         IN  IF diff = 0 THEN [label |-> "Recommended", diff |-> 0]
             ELSE IF diff > 0 THEN [label |-> "Over", diff |-> diff]
             ELSE [label |-> "Under", diff |-> diff]

\* The identifier without the player count.
combo_id_WithoutPlayerCount(player_count, suits_used) ==
    <<80, 58, 58>> \o Join(canonical_list(suits_used), <<124>>)

\* f"{player_count}P::{suits_key}"
combo_id(player_count, suits_used) ==
    IntToStr(player_count) \o <<80, 58, 58>> \o Join(canonical_list(suits_used), <<124>>)

\* The filter without its condition: Authority stays.
NotAuthority_KeepsAuthority(s) == TRUE

NotAuthority(s) == s # Authority

RecommendedRow(pc, k, suit_set) ==
    LET suits_used == canonical_list(suit_set)
    IN  [ combo_id |-> combo_id(pc, suits_used),
          player_count |-> pc,
          suits_used |-> suits_used,
          recommended_suit_count |-> k ]

RECURSIVE RecommendedRowsFrom(_, _)
RecommendedRowsFrom(items, non_authority) ==
    IF items = <<>> THEN <<>>
    ELSE LET pc == Head(items).pc
             k == Head(items).k
             sets == combinations(non_authority, k)
         IN  [i \in 1..Len(sets) |-> RecommendedRow(pc, k, sets[i])]
             \o RecommendedRowsFrom(Tail(items), non_authority)

generate_recommended_combos ==
    RecommendedRowsFrom(RECOMMENDED_SUITS, SelectSeq(SUITS, NotAuthority))


\* ------------------------------------------------------------------
\* Cells of the worksheet, as gspread writes and reads them
\* ------------------------------------------------------------------
\* An empty cell: "" written, "" read.
Blank == [kind |-> "blank", n |-> 0, list |-> <<>>]

\* An integer number.
IntCell(v) == [kind |-> "int", n |-> v, list |-> <<>>]

\* A number that is no integer, such as 2.5 (n is its integer part).
FracCell(v) == [kind |-> "frac", n |-> v, list |-> <<>>]

\* A text that is neither a number nor JSON.
StrCell(s) == IF s = <<>> THEN Blank ELSE [kind |-> "str", n |-> 0, list |-> <<s>>]

\* datetime.isoformat(timespec="seconds") of the UTC instant t. The text has
\* a fixed width, so its str order is the order of the instants.
TimeCell(t) == [kind |-> "time", n |-> t, list |-> <<>>]

\* json.dumps(xs, ensure_ascii=False) of a list
JsonCell(xs) == [kind |-> "json", n |-> 0, list |-> xs]

\* bool(b): TRUE / FALSE in the sheet
BoolCell(b) == [kind |-> "bool", n |-> IF b THEN 1 ELSE 0, list |-> <<>>]

\* pd.NA / NaN / None in a DataFrame
NA == [kind |-> "na", n |-> 0, list |-> <<>>]

notna(c) == c.kind # "na"

\* ------------------------------------------------------------------
\* Google Sheets helpers
\* ------------------------------------------------------------------
\* ws.append_row(values) below the rows of the table
append_row(ws, values) == [ws EXCEPT !.rows = Append(@, values)]

NotInCurrent(current, h) == h \notin Range(current)

MissingHeaders(current) ==
    LET Missing(h) == NotInCurrent(current, h) IN SelectSeq(SHEET_HEADERS, Missing)

ensure_sheet_schema(ws) ==
    LET current == ws.header
    IN  IF current = <<>> THEN [ws EXCEPT !.header = SHEET_HEADERS]
        ELSE IF MissingHeaders(current) # <<>>
             THEN [ws EXCEPT !.header = current \o MissingHeaders(current)]
             ELSE ws

get_sheet(ws) ==
    IF ~ws.exists
    THEN [exists |-> TRUE, header |-> SHEET_HEADERS, rows |-> <<>>]
    ELSE ensure_sheet_schema(ws)

PlayRow(play) ==
    << play.timestamp_utc, play.player_count, JsonCell(play.suits_used),
       JsonCell(play.modules_on), BoolCell(play.first_play),
       JsonCell(play.players), JsonCell(play.scores),
       StrCell(play.winner), StrCell(play.notes) >>

append_play(ws, play) == append_row(get_sheet(ws), PlayRow(play))

\* ws.get_all_records(): row 1 gives the keys, every later row one dict;
\* a cell the row does not reach reads "".
HeaderIndex(header, h) == CHOOSE i \in 1..Len(header) : header[i] = h

get_all_records(ws) ==
    [r \in 1..Len(ws.rows) |->
        [h \in Range(ws.header) |->
            LET i == HeaderIndex(ws.header, h)
            IN  IF i <= Len(ws.rows[r]) THEN ws.rows[r][i] ELSE Blank]]

\* the value read_plays_df gives a column the sheet lacks
BackfillValue(col) ==
    IF col \in {"suits_used_json", "modules_on_json", "players_json", "scores_json",
                "winner", "notes", "timestamp_utc"}
    THEN Blank ELSE BoolCell(FALSE)

\* pd.to_numeric(errors="coerce") of one value
to_numeric(c) == IF c.kind \in {"int", "frac"} THEN c ELSE NA

\* to_bool of read_plays_df
to_bool(c) ==
    IF c.kind = "bool" THEN c.n = 1
    ELSE IF c.kind = "int" THEN c.n = 1
    ELSE IF c.kind = "str"
         THEN lower(strip(c.list[1])) \in
                 { <<116, 114, 117, 101>>, <<121, 101, 115>>, <<121>> }
         ELSE FALSE

FrameRow(rec) ==
    LET filled == [col \in Range(SHEET_HEADERS) \cup DOMAIN rec |->
                      IF col \in DOMAIN rec THEN rec[col] ELSE BackfillValue(col)]
    IN  [filled EXCEPT !["player_count"] = to_numeric(@),
                       !["first_play"] = BoolCell(to_bool(@))]

\* read_plays_df after its get_sheet(): ok is FALSE when astype("Int64")
\* raises TypeError (a player_count that is a number but no integer).
read_plays_df(ws) ==
    LET rows == get_all_records(ws)
        df == [r \in 1..Len(rows) |-> FrameRow(rows[r])]
    IN  IF \E r \in 1..Len(df) : df[r]["player_count"].kind = "frac"
        THEN [ok |-> FALSE, rows |-> <<>>]
        ELSE [ok |-> TRUE, rows |-> df]

\* ------------------------------------------------------------------
\* JSON decode helpers (2)
\* ------------------------------------------------------------------
decode_json_list(val) == IF val.kind = "json" THEN val.list ELSE <<>>

\* ------------------------------------------------------------------
\* pandas: groupby and merge
\* ------------------------------------------------------------------
\* The group keys of df.groupby(key): the distinct keys that are not NA,
\* in ascending (str) order.
RECURSIVE SortedKeys(_)
SortedKeys(S) ==
    IF S = {} THEN <<>>
    ELSE LET m == CHOOSE k \in S : \A o \in S : ~StrLT(o, k)
         IN  <<m>> \o SortedKeys(S \ {m})

GroupKeys(ids) == SortedKeys({ ids[i].id : i \in { j \in 1..Len(ids) : ~ids[j].na } })

GroupMembers(ids, key) == { i \in 1..Len(ids) : ~ids[i].na /\ ids[i].id = key }

\* max() of a column of timestamp texts ("" is the least str)
TimeKey(c) == IF c.kind = "time" THEN c.n ELSE 0

\* min() in place of max()
MinTime(cells) == CHOOSE c \in cells : \A o \in cells : TimeKey(c) <= TimeKey(o)

MaxTime(cells) == CHOOSE c \in cells : \A o \in cells : TimeKey(o) <= TimeKey(c)

\* df.groupby("combo_id").size()
GroupSize(ids) ==
    LET keys == GroupKeys(ids)
    IN  [g \in 1..Len(keys) |->
            [combo_id |-> keys[g], value |-> Cardinality(GroupMembers(ids, keys[g]))]]

\* df.groupby("combo_id")["timestamp_utc"].max()
GroupMaxTime(ids, rows) ==
    LET keys == GroupKeys(ids)
    IN  [g \in 1..Len(keys) |->
            [combo_id |-> keys[g],
             value |-> MaxTime({ rows[i]["timestamp_utc"] : i \in GroupMembers(ids, keys[g]) })]]

\* The merge as how="inner" would give it: a left row without a right row
\* is dropped.
MergeOneInner(li, key, right) ==
    LET Same(r) == r.combo_id = key
        found == SelectSeq(right, Same)
    IN  [m \in 1..Len(found) |-> [li |-> li, na |-> FALSE, value |-> found[m].value]]

\* One left row of left.merge(right, on="combo_id", how="left"): a row per
\* right row with the same key, and one row of NaN when there is none.
MergeOneLeft(li, key, right) ==
    LET Same(r) == r.combo_id = key
        found == SelectSeq(right, Same)
    IN  IF found = <<>> THEN << [li |-> li, na |-> TRUE, value |-> 0] >>
        ELSE [m \in 1..Len(found) |-> [li |-> li, na |-> FALSE, value |-> found[m].value]]

RECURSIVE MergeRange(_, _, _, _)
MergeRange(leftKeys, right, lo, hi) ==
    IF lo > hi THEN <<>>
    ELSE IF lo = hi THEN MergeOneLeft(lo, leftKeys[lo], right)
    ELSE LET mid == (lo + hi) \div 2
         IN  MergeRange(leftKeys, right, lo, mid) \o MergeRange(leftKeys, right, mid + 1, hi)

\* The rows of the merge, each naming its left row (li) and the right value.
merge_left(leftKeys, right) == MergeRange(leftKeys, right, 1, Len(leftKeys))

\* ------------------------------------------------------------------
\* Combo + coverage helpers (2)
\* ------------------------------------------------------------------
SuitsUsed(row) == canonical_list(decode_json_list(row["suits_used_json"]))

\* The coverage key built from the full list, Authority included.
CoverageComboId_KeepsAuthority(row) ==
    IF notna(row["player_count"])
    THEN [na |-> FALSE, id |-> combo_id(row["player_count"].n, SuitsUsed(row))]
    ELSE [na |-> TRUE, id |-> <<>>]

\* df["combo_id"] of compute_coverage: Authority is ignored
CoverageComboId(row) ==
    IF notna(row["player_count"])
    THEN [na |-> FALSE,
          id |-> combo_id(row["player_count"].n, SelectSeq(SuitsUsed(row), NotAuthority))]
    ELSE [na |-> TRUE, id |-> <<>>]

CoverageRow(rec, played_count, last_played_utc) ==
    [ combo_id |-> rec.combo_id,
      player_count |-> rec.player_count,
      suits_used |-> rec.suits_used,
      recommended_suit_count |-> rec.recommended_suit_count,
      played_count |-> played_count,
      last_played_utc |-> last_played_utc ]

compute_coverage(recommended_df, plays_rows) ==
    IF plays_rows = <<>>
    THEN [i \in 1..Len(recommended_df) |-> CoverageRow(recommended_df[i], 0, Blank)]
    ELSE LET ids == [r \in 1..Len(plays_rows) |-> CoverageComboId(plays_rows[r])]
             counts == GroupSize(ids)
             last_play == GroupMaxTime(ids, plays_rows)
             m1 == merge_left([i \in 1..Len(recommended_df) |-> recommended_df[i].combo_id],
                              counts)
             m2 == merge_left([j \in 1..Len(m1) |-> recommended_df[m1[j].li].combo_id],
                              last_play)
         IN  [j \in 1..Len(m2) |->
                 LET a == m1[m2[j].li]
                 IN  CoverageRow(recommended_df[a.li],
                                 IF a.na THEN 0 ELSE a.value,
                                 IF m2[j].na THEN Blank ELSE m2[j].value)]

\* The observed key built from the list without Authority, as the coverage
\* key is.
ObservedComboId_IgnoresAuthority(row) ==
    IF notna(row["player_count"])
    THEN [na |-> FALSE,
          id |-> combo_id(row["player_count"].n, SelectSeq(SuitsUsed(row), NotAuthority))]
    ELSE [na |-> TRUE, id |-> <<>>]

\* df["combo_id"] of compute_observed_combos: the full canonical list
ObservedComboId(row) ==
    IF notna(row["player_count"])
    THEN [na |-> FALSE, id |-> combo_id(row["player_count"].n, SuitsUsed(row))]
    ELSE [na |-> TRUE, id |-> <<>>]

ObservedRow(ids, rows, key) ==
    LET members == GroupMembers(ids, key)
        first == CHOOSE i \in members : \A o \in members : i <= o
        suits == SuitsUsed(rows[first])
    IN  [ combo_id |-> key,
          player_count |-> rows[first]["player_count"].n,
          played_count |-> Cardinality(members),
          last_played_utc |-> MaxTime({ rows[i]["timestamp_utc"] : i \in members }),
          suits_used |-> suits,
          suit_count |-> Len(suits),
          density |-> density_label(rows[first]["player_count"].n, Len(suits)),
          has_authority |-> Authority \in Range(suits) ]

\* sort_values(["player_count", "played_count"], ascending=[True, False])
ObservedBefore(a, b) ==
    \/ a.player_count < b.player_count
    \/ a.player_count = b.player_count /\ a.played_count > b.played_count

RECURSIVE InsertObserved(_, _)
InsertObserved(placed, r) ==
    IF placed = <<>> THEN <<r>>
    ELSE IF ObservedBefore(r, Head(placed)) THEN <<r>> \o placed
    ELSE <<Head(placed)>> \o InsertObserved(Tail(placed), r)

RECURSIVE SortObserved(_)
SortObserved(rs) ==
    IF rs = <<>> THEN <<>>
    ELSE InsertObserved(SortObserved(SubSeq(rs, 1, Len(rs) - 1)), rs[Len(rs)])

compute_observed_combos(plays_rows) ==
    IF plays_rows = <<>> THEN <<>>
    ELSE LET ids == [r \in 1..Len(plays_rows) |-> ObservedComboId(plays_rows[r])]
             keys == GroupKeys(ids)
         IN  SortObserved([g \in 1..Len(keys) |-> ObservedRow(ids, plays_rows, keys[g])])

\* ------------------------------------------------------------------
\* The plays the model appends
\* ------------------------------------------------------------------
ModJobs == <<74, 111, 98, 115>>
PlayerAnn == <<65, 110, 110>>
PlayerBob == <<66, 111, 98>>
NoteText == <<103, 103>>

\* What the widgets of "Log a Play" can hold at a submit: the player count
\* (among 2, 3, 4, 5) and the suits picked, in the order picked.
WidgetChoices ==
    { [player_count |-> 2, suits_used |-> <<Tools, Goods, Crew>>],
      [player_count |-> 2, suits_used |-> <<Authority, Tools, Goods, Crew>>],
      [player_count |-> 3, suits_used |-> <<Tools, Goods, Crew>>],
      [player_count |-> 3, suits_used |-> <<Access, Tools, Goods, Crew>>] }

\* The play dict the "Submit Play Log" handler builds at instant t.
SubmittedPlay(t, player_count, suits_used) ==
    [ timestamp_utc |-> TimeCell(t),
      player_count |-> IntCell(player_count),
      suits_used |-> canonical_list(suits_used),
      modules_on |-> <<ModJobs>>,
      first_play |-> TRUE,
      players |-> <<PlayerAnn, PlayerBob>>,
      scores |-> <<NatToStr(3), NatToStr(5)>>,
      winner |-> PlayerAnn,
      notes |-> NoteText ]

\* A player_count that is missing or invalid: the key absent (""), a
\* number that is no integer (2.5).
BadPlayerCounts == { Blank, FracCell(2) }

\* ------------------------------------------------------------------
\* The script (module level of app.py)
\* ------------------------------------------------------------------
recommended_df == generate_recommended_combos

coverage_df == compute_coverage(recommended_df, frame.rows)

observed_df == compute_observed_combos(frame.rows)

NoSheet == [exists |-> FALSE, header |-> <<>>, rows |-> <<>>]

EmptySheet == [exists |-> TRUE, header |-> <<>>, rows |-> <<>>]

HelpersIdle ==
    /\ argA = <<>> /\ argB = <<>> /\ pcA = 0 /\ pcB = 0
    /\ retA = <<>> /\ retB = <<>>

helperVars == <<argA, argB, pcA, pcB, retA, retB>>

StoreStart ==
    /\ clock = 1
    /\ frame = [ok |-> TRUE, rows |-> <<>>]
    /\ previous = [ok |-> TRUE, rows |-> <<>>]
    /\ log = <<>>

\* The worksheet is absent, empty, or holds the header row only.
Init ==
    /\ sheet \in { NoSheet, EmptySheet,
                   [exists |-> TRUE, header |-> SHEET_HEADERS, rows |-> <<>>] }
    /\ StoreStart
    /\ phase = "rerun"
    /\ HelpersIdle

\* One run of the script down to its tables: plays_df = read_plays_df(),
\* recommended_df, coverage_df, observed_df. read_plays_df raising ends it.
ScriptRun ==
    /\ phase \in {"rerun", "crashed"}
    /\ sheet' = get_sheet(sheet)
    /\ frame' = read_plays_df(sheet')
    /\ previous' = frame
    /\ phase' = IF frame'.ok THEN "computed" ELSE "crashed"
    /\ UNCHANGED <<clock, log, helperVars>>

\* The rest of the run: the tabs are drawn and the page waits for input.
Render ==
    /\ phase = "computed"
    /\ phase' = "idle"
    /\ UNCHANGED <<sheet, clock, frame, previous, log, helperVars>>

\* "Submit Play Log": the play is built from the widgets, append_play(play)
\* writes it and st.rerun() reruns the script. Each submit falls in a later
\* second than the one before.
SubmitPlayLog ==
    /\ phase = "idle"
    /\ Len(log) < MaxPlays
    /\ \E w \in WidgetChoices :
          LET play == SubmittedPlay(clock, w.player_count, w.suits_used)
          IN  /\ sheet' = append_play(sheet, play)
              /\ log' = Append(log, play)
    /\ clock' = clock + 1
    /\ phase' = "rerun"
    /\ UNCHANGED <<frame, previous, helperVars>>

\* append_play called with a play whose player_count is missing or invalid
\* (a row of an older version of the tracker, or written by hand).
AppendBadPlay ==
    /\ phase \in {"idle", "crashed"}
    /\ Len(log) < MaxPlays
    /\ \E bad \in BadPlayerCounts :
          LET play == [SubmittedPlay(clock, 0, <<Tools, Goods, Crew>>)
                          EXCEPT !.player_count = bad]
          IN  /\ sheet' = append_play(sheet, play)
              /\ log' = Append(log, play)
    /\ clock' = clock + 1
    /\ phase' = "rerun"
    /\ UNCHANGED <<frame, previous, helperVars>>

Next == ScriptRun \/ Render \/ SubmitPlayLog \/ AppendBadPlay

Spec == Init /\ [][Next]_vars

\* ------------------------------------------------------------------
\* The tracker on a sheet of an older version: row 1 holds fewer headers
\* ------------------------------------------------------------------
LegacyHeaders ==
    { <<"timestamp_utc", "player_count", "suits_used_json", "modules_on_json">>,
      <<"timestamp_utc", "player_count", "suits_used_json", "modules_on_json",
        "winner", "notes">>,
      <<"timestamp_utc", "player_count", "suits_used_json", "notes">> }

InitLegacy ==
    /\ \E h \in LegacyHeaders : sheet = [exists |-> TRUE, header |-> h, rows |-> <<>>]
    /\ StoreStart
    /\ phase = "rerun"
    /\ HelpersIdle

SpecLegacy == InitLegacy /\ [][Next]_vars

\* ------------------------------------------------------------------
\* The pure helpers canonical_list and combo_id on arbitrary names
\* ------------------------------------------------------------------
\* Names with and without surrounding whitespace, in both cases, empty and
\* whitespace-only: "", " ", "a", "A", "b", " a", "a ".
NameChoices ==
    { <<>>, <<32>>, <<97>>, <<65>>, <<98>>, <<32, 97>>, <<97, 32>> }

RECURSIVE ListsUpTo(_)
ListsUpTo(n) ==
    IF n = 0 THEN { <<>> }
    ELSE ListsUpTo(n - 1)
         \cup { Append(xs, x) : xs \in { l \in ListsUpTo(n - 1) : Len(l) = n - 1 },
                                x \in NameChoices }

PlayerCountArgs == {2, 12}

StoreIdle ==
    /\ sheet = EmptySheet
    /\ StoreStart

storeVars == <<sheet, clock, frame, previous, log>>

InitHelpers ==
    /\ StoreIdle
    /\ phase = "args"
    /\ argA \in ListsUpTo(MaxLen)
    /\ argB \in ListsUpTo(MaxLen)
    /\ pcA \in PlayerCountArgs
    /\ pcB \in PlayerCountArgs
    /\ retA = <<>>
    /\ retB = <<>>

CallCanonicalList ==
    /\ phase = "args"
    /\ retA' = canonical_list(argA)
    /\ retB' = canonical_list(argB)
    /\ phase' = "canonical_list"
    /\ UNCHANGED <<storeVars, argA, argB, pcA, pcB>>

CallComboId ==
    /\ phase = "args"
    /\ retA' = combo_id(pcA, argA)
    /\ retB' = combo_id(pcB, argB)
    /\ phase' = "combo_id"
    /\ UNCHANGED <<storeVars, argA, argB, pcA, pcB>>

NextHelpers == CallCanonicalList \/ CallComboId

SpecHelpers == InitHelpers /\ [][NextHelpers]_vars

\* ------------------------------------------------------------------
\* What the properties below speak of
\* ------------------------------------------------------------------
\* The rows of plays_df whose player_count is a usable integer.
ValidRows == { r \in 1..Len(frame.rows) : frame.rows[r]["player_count"].kind = "int" }

\* Row r of plays_df is a play of recommended combination rec: the same
\* player count, and the canonical suit list without Authority is rec's.
RowPlays(rows, r, rec) ==
    /\ rows[r]["player_count"].kind = "int"
    /\ rows[r]["player_count"].n = rec.player_count
    /\ SelectSeq(SuitsUsed(rows[r]), NotAuthority) = rec.suits_used

RECURSIVE Binomial(_, _)
Binomial(n, k) ==
    IF k = 0 THEN 1
    ELSE IF n = 0 THEN 0
    ELSE Binomial(n - 1, k - 1) + Binomial(n - 1, k)

RECURSIVE SumOf(_)
SumOf(ns) == IF ns = <<>> THEN 0 ELSE Head(ns) + SumOf(Tail(ns))

\* C2: compute_coverage is a left join from the recommended side: whatever
\* the record log holds, coverage_df has exactly the rows of recommended_df,
\* one coverage row per recommended row and with its combo_id, none dropped
\* and none duplicated.
C2_CoverageIsLeftJoin ==
    phase = "computed" =>
        LET cov == coverage_df
        IN  /\ Len(cov) = Len(recommended_df)
            /\ \A i \in 1..Len(cov) : cov[i].combo_id = recommended_df[i].combo_id

\* The log holds a play that matches no combination, a row without a usable
\* player_count and a play that matches, and the join was computed.
C2_Witness ==
    /\ phase = "computed"
    /\ Len(frame.rows) = 2
    /\ ValidRows # {}
    /\ ValidRows # 1..Len(frame.rows)
    /\ LET cov == coverage_df IN \E i \in 1..Len(cov) : cov[i].played_count = 1

\* The recommended table, as generate_recommended_combos is meant to give
\* it: for each (player_count, k) of RECOMMENDED_SUITS, C(n, k) rows, n the
\* number of catalog suits other than Authority; each row k distinct suits
\* other than Authority; no combo_id twice.
RecommendedIsAllCombinations ==
    LET rec == generate_recommended_combos
        others == Range(SUITS) \ {Authority}
        ids == { rec[i].combo_id : i \in 1..Len(rec) }
    IN  /\ Cardinality(others) = 13
        /\ \A e \in Range(RECOMMENDED_SUITS) :
              Cardinality({ i \in 1..Len(rec) : rec[i].player_count = e.pc })
                  = Binomial(Cardinality(others), e.k)
        /\ \A i \in 1..Len(rec) :
              /\ rec[i].player_count \in RecommendedKeys
              /\ Len(rec[i].suits_used) = RecommendedGet(rec[i].player_count)
              /\ Cardinality(Range(rec[i].suits_used)) = Len(rec[i].suits_used)
              /\ Range(rec[i].suits_used) \subseteq others
        /\ Cardinality(ids) = Len(rec)

\* C6: generate_recommended_combos gives, for each (player_count, k) of
\* RECOMMENDED_SUITS, exactly C(13, k) rows, each a size-k subset of the
\* suits other than Authority, and all combo_id values are pairwise
\* distinct: the table every run of the script joins against.
C6_RecommendedEnumeration ==
    phase = "computed" => RecommendedIsAllCombinations

\* A run joined a non-empty log against the 286 + 715 + 1716 + 1716 rows.
C6_Witness ==
    /\ phase = "computed"
    /\ frame.rows # <<>>
    /\ Len(recommended_df) = Binomial(13, 3) + Binomial(13, 4) + 2 * Binomial(13, 6)

\* C8: each coverage row's last_played_utc is the greatest timestamp_utc
\* among the rows of the log that play its combination, which is the
\* timestamp of the last such row appended, and it is empty exactly when no
\* row plays it, that is when played_count is 0.
C8_LastPlayedIsLatestMatch ==
    phase = "computed" =>
        LET cov == coverage_df
            rows == frame.rows
        IN  \A i \in 1..Len(cov) :
               LET playing == { r \in 1..Len(rows) : RowPlays(rows, r, cov[i]) }
               IN  /\ (playing = {}) <=> (cov[i].last_played_utc = Blank)
                   /\ (playing = {}) <=> (cov[i].played_count = 0)
                   /\ playing # {} =>
                        LET last == CHOOSE r \in playing : \A o \in playing : o <= r
                        IN  /\ cov[i].last_played_utc = rows[last]["timestamp_utc"]
                            /\ \A r \in playing :
                                  TimeKey(rows[r]["timestamp_utc"])
                                      <= TimeKey(cov[i].last_played_utc)

\* Two rows of the log, appended at different instants, play the same
\* combination.
C8_Witness ==
    /\ phase = "computed"
    /\ Len(frame.rows) = 2
    /\ ValidRows = {1, 2}
    /\ CoverageComboId(frame.rows[1]) = CoverageComboId(frame.rows[2])
    /\ LET cov == coverage_df
       IN  \E i \in 1..Len(cov) :
              cov[i].played_count = 2 /\ cov[i].last_played_utc = TimeCell(2)

\* The (player_count, full canonical suit list) of a row of plays_df.
ObservedKey(row) == <<row["player_count"].n, SuitsUsed(row)>>

\* C9: compute_observed_combos gives exactly one row per distinct
\* (player_count, full canonical suit list, Authority included) among the
\* rows with a valid player_count, its played_count the number of those
\* rows; the played_count values sum to the number of valid rows; and two
\* rows that differ only by Authority fall in two observed rows although
\* they count toward the same coverage row.
C9_ObservedGroups ==
    phase = "computed" =>
        LET obs == observed_df
            rows == frame.rows
            keys == { ObservedKey(rows[r]) : r \in ValidRows }
        IN  /\ Len(obs) = Cardinality(keys)
            /\ { <<obs[g].player_count, obs[g].suits_used>> : g \in 1..Len(obs) } = keys
            /\ \A g \in 1..Len(obs) :
                  obs[g].played_count =
                      Cardinality({ r \in ValidRows :
                          ObservedKey(rows[r]) = <<obs[g].player_count, obs[g].suits_used>> })
            /\ SumOf([g \in 1..Len(obs) |-> obs[g].played_count]) = Cardinality(ValidRows)
            /\ \A r1, r2 \in ValidRows :
                  ( /\ rows[r1]["player_count"] = rows[r2]["player_count"]
                    /\ Authority \in Range(SuitsUsed(rows[r1]))
                    /\ SuitsUsed(rows[r2]) = SelectSeq(SuitsUsed(rows[r1]), NotAuthority) )
                  => /\ ObservedComboId(rows[r1]) # ObservedComboId(rows[r2])
                     /\ CoverageComboId(rows[r1]) = CoverageComboId(rows[r2])
                     /\ \E g1, g2 \in 1..Len(obs) :
                           /\ g1 # g2
                           /\ obs[g1].suits_used = SuitsUsed(rows[r1])
                           /\ obs[g2].suits_used = SuitsUsed(rows[r2])

\* The log holds the same suits with and without Authority at one player
\* count.
C9_Witness ==
    /\ phase = "computed"
    /\ Len(observed_df) = 2
    /\ \E r1, r2 \in ValidRows :
          /\ frame.rows[r1]["player_count"] = frame.rows[r2]["player_count"]
          /\ Authority \in Range(SuitsUsed(frame.rows[r1]))
          /\ SuitsUsed(frame.rows[r2]) = SelectSeq(SuitsUsed(frame.rows[r1]), NotAuthority)

\* One play was appended between the last two runs of the script.
OneAppended == previous.ok /\ Len(log) = Len(previous.rows) + 1

LastPlay == log[Len(log)]

\* Play r is a play of recommended combination rec: r's player count is
\* rec's, and r's canonical suit list with Authority removed is rec's list.
PlayMatches(r, rec) ==
    /\ r.player_count.kind = "int"
    /\ r.player_count.n = rec.player_count
    /\ SelectSeq(canonical_list(r.suits_used), NotAuthority) = rec.suits_used

\* The played_count compute_observed_combos gives a (player count, full
\* canonical suit list), 0 when it has no row.
ObservedCount(obs, pc, suits) ==
    SumOf([g \in 1..Len(obs) |->
              IF obs[g].player_count = pc /\ obs[g].suits_used = suits
              THEN obs[g].played_count ELSE 0])

\* C1: appending a record r with a valid player_count whose canonical suit
\* list without Authority is the suit list of a recommended combination of
\* its player count raises played_count by exactly 1 on that one coverage
\* row and leaves every other row's played_count as it was; when r's suit
\* count without Authority differs from RECOMMENDED_SUITS[player_count], no
\* coverage row's played_count changes, yet r is counted in a row of
\* compute_observed_combos. (previous and frame are plays_df before and
\* after the append.)
C1_AppendCountsOnOneRow ==
    (phase = "computed" /\ OneAppended /\ LastPlay.player_count.kind = "int")
    => LET r == LastPlay
           pc == r.player_count.n
           full == canonical_list(r.suits_used)
           stripped == SelectSeq(full, NotAuthority)
           before == compute_coverage(recommended_df, previous.rows)
           after == coverage_df
           hit == { i \in 1..Len(recommended_df) : PlayMatches(r, recommended_df[i]) }
           obsBefore == compute_observed_combos(previous.rows)
           obsAfter == observed_df
       IN  /\ Len(after) = Len(before)
           /\ hit # {} =>
                /\ Cardinality(hit) = 1
                /\ \A j \in 1..Len(after) :
                      after[j].played_count =
                          before[j].played_count + (IF j \in hit THEN 1 ELSE 0)
           /\ (pc \notin RecommendedKeys \/ Len(stripped) # RecommendedGet(pc)) =>
                /\ \A j \in 1..Len(after) :
                      after[j].played_count = before[j].played_count
                /\ ObservedCount(obsAfter, pc, full)
                      = ObservedCount(obsBefore, pc, full) + 1

\* A play of a combination already played once was appended.
C1_Witness ==
    /\ phase = "computed"
    /\ Len(log) = 2 /\ Len(frame.rows) = 2
    /\ LET cov == coverage_df
       IN  \E i \in 1..Len(cov) :
              /\ PlayMatches(log[1], cov[i])
              /\ PlayMatches(log[2], cov[i])
              /\ cov[i].played_count = 2

\* C3: every coverage row's played_count is 0 while the store is empty,
\* never decreases from one run of the script to the next, and changes
\* between two consecutive runs only when the record appended in between is
\* a play of that row's combination (its player count, its suit list
\* without Authority). (previous and frame are plays_df of two consecutive
\* runs.)
C3_CountsGrowOnlyByMatchingAppends ==
    (phase = "computed" /\ previous.ok)
    => LET before == compute_coverage(recommended_df, previous.rows)
           after == coverage_df
       IN  /\ Len(after) = Len(before)
           /\ log = <<>> => \A j \in 1..Len(after) : after[j].played_count = 0
           /\ \A j \in 1..Len(after) :
                 /\ after[j].played_count >= before[j].played_count
                 /\ after[j].played_count # before[j].played_count
                       => OneAppended /\ PlayMatches(LastPlay, after[j])

\* A combination was played, and the next record appended, which plays no
\* recommended combination, left its count at 1.
C3_Witness ==
    /\ phase = "computed"
    /\ Len(log) = 2 /\ Len(frame.rows) = 2
    /\ LET cov == coverage_df
       IN  /\ \E i \in 1..Len(cov) :
                 PlayMatches(log[1], cov[i]) /\ cov[i].played_count = 1
           /\ \A i \in 1..Len(cov) : ~PlayMatches(log[2], cov[i])

\* The names of a collection, as a set: each entry trimmed, the empty ones
\* left out.
NameSet(items) == { strip(items[i]) : i \in 1..Len(items) } \ { <<>> }

\* C4: combo_id(n, A) = combo_id(m, B) if and only if n = m and A and B are
\* equal as sets of names, whatever the order of the names and however many
\* times a name is repeated. (retA and retB are combo_id(pcA, argA) and
\* combo_id(pcB, argB).)
C4_ComboIdEqualIffSameSet ==
    phase = "combo_id" =>
        ((retA = retB) <=> (pcA = pcB /\ NameSet(argA) = NameSet(argB)))

\* C5: canonical_list(X) holds no empty entry, holds each retained name
\* trimmed, holds each distinct trimmed name at most once and is sorted
\* ascending by the lower-cased name. (retA is canonical_list(argA).)
C5_CanonicalListIsSortedSet ==
    phase = "canonical_list" =>
        /\ \A i \in 1..Len(retA) : retA[i] # <<>> /\ strip(retA[i]) = retA[i]
        /\ Range(retA) = NameSet(argA)
        /\ Cardinality(Range(retA)) = Len(retA)
        /\ \A i \in 1..(Len(retA) - 1) : ~StrLT(lower(retA[i + 1]), lower(retA[i]))

\* A row of plays_df whose player_count is a usable integer.
HasPlayerCount(row) == row["player_count"].kind = "int"

\* C7: a stored record whose player_count is missing or invalid never makes
\* read_plays_df, compute_coverage or compute_observed_combos fail, and the
\* coverage rows are what they would be without that record in the log.
C7_BadPlayerCountNeverFails ==
    /\ phase # "crashed"
    /\ frame.ok
    /\ phase = "computed" =>
          coverage_df = compute_coverage(recommended_df, SelectSeq(frame.rows, HasPlayerCount))

\* What read_plays_df is to give for an appended play: each field under its
\* own column name.
ExpectedFrameRow(play) ==
    [col \in Range(SHEET_HEADERS) |->
        CASE col = "timestamp_utc" -> play.timestamp_utc
          [] col = "player_count" -> to_numeric(play.player_count)
          [] col = "suits_used_json" -> JsonCell(play.suits_used)
          [] col = "modules_on_json" -> JsonCell(play.modules_on)
          [] col = "first_play" -> BoolCell(play.first_play)
          [] col = "players_json" -> JsonCell(play.players)
          [] col = "scores_json" -> JsonCell(play.scores)
          [] col = "winner" -> StrCell(play.winner)
          [] col = "notes" -> StrCell(play.notes)]

\* C10: the store is append-only and round-trips records: read_plays_df
\* gives one row per appended play in append order, the rows read before an
\* append are the same after it, and each field of each appended play is
\* read back under its own column name, also when the sheet began with an
\* older header row that ensure_sheet_schema extended.
C10_StoreRoundTrips ==
    phase = "computed" =>
        /\ Len(frame.rows) = Len(log)
        /\ previous.ok => /\ Len(previous.rows) <= Len(frame.rows)
                          /\ \A i \in 1..Len(previous.rows) : frame.rows[i] = previous.rows[i]
        /\ \A i \in 1..Len(log) :
              \A col \in Range(SHEET_HEADERS) :
                 frame.rows[i][col] = ExpectedFrameRow(log[i])[col]

====
